---------------------------- MODULE Spec2Model ----------------------------
(***************************************************************************)
(* A model of pypep/client.py: the Pasargad payment client.                *)
(*                                                                         *)
(*   - the key loader (_convert_xml_key_to_pem, _process_xml_node) over an *)
(*     XML key file, with base64.b64decode, number.bytes_to_long and       *)
(*     RSA.construct modelled by what these library calls do;              *)
(*   - the signer (_make_sign) with json.dumps, SHA1 and PKCS#1 v1.5;      *)
(*   - the request builder (_request_builder) and the four API calls,      *)
(*     run by concurrently executing callers on one client.                *)
(*                                                                         *)
(* A Python call either returns a value or raises: Return(v) / Raise(t, a).*)
(* Characters are one-character strings, a text is a sequence of them.     *)
(***************************************************************************)
EXTENDS Integers, Sequences, FiniteSets, TLC

VARIABLES
    file,       \* the content found at certification_file
    client,     \* "new" (before __init__), "ready" (__init__ returned), "aborted"
    key_pair,   \* self._key_pair
    exitErr,    \* the exception SystemExit carries when __init__ aborts
    loads,      \* how many times the key file has been loaded
    pc,         \* per caller: where it stands inside its API call
    method,     \* per caller: the API method it runs
    data,       \* per caller: the params dict handed to _request_builder
    local_key,  \* per caller: _make_sign's local key_pair
    serialized, \* per caller: _make_sign's serialized_data
    sign,       \* per caller: the value of the 'Sign' header
    body,       \* per caller: request.data
    sent,       \* per caller: the request handed to urlopen, or NoRequest
    signs,      \* per caller: runs of _make_sign in the current call
    calls,      \* per caller: API calls started
    outcome,    \* per caller: how the last call ended
    rng,        \* the state of the process's random generator
    probe,      \* a pair of payloads handed directly to _make_sign
    probeOut    \* what _make_sign gave for them, run after run

vars == <<file, client, key_pair, exitErr, loads, pc, method, data, local_key,
          serialized, sign, body, sent, signs, calls, outcome, rng, probe,
          probeOut>>

clientVars == <<file, client, key_pair, exitErr, loads>>
callerVars == <<pc, method, data, local_key, serialized, sign, body, sent,
                signs, calls, outcome>>
probeVars == <<probe, probeOut>>

----------------------------------------------------------------------------
(* Bounds of the model *)

\* longest free text tried in one key-file element
MaxTextLen == 5
\* largest value tried for P and Q
MaxPrime == 5
\* largest value tried for Exponent and D
MaxExp == 11
\* largest value tried for Modulus
MaxN == 15
\* most entries of a payload handed directly to _make_sign
MaxDictLen == 2
\* API calls one caller makes
MaxCalls == 2
\* The PKCS#1 v1.5 encoding needs a modulus of at least len(DigestInfo) + 11
\* bytes (46 bytes for SHA-1). The model's moduli are a few bits long, and the
\* threshold is scaled down with them: the least modulus bit length that can
\* hold the encoded digest.
MinEmBits == 6

----------------------------------------------------------------------------
(* Python outcomes *)

Return(v) == [ok |-> TRUE, val |-> v]
Raise(t, a) == [ok |-> FALSE, err |-> [type |-> t, arg |-> a]]

NoKey == [n |-> 0, e |-> 0, d |-> 0, p |-> 0, q |-> 0, u |-> 0]
NoErr == [type |-> "none", arg |-> "none"]

----------------------------------------------------------------------------
(* base64.b64decode(string) and number.bytes_to_long *)

B64Alphabet ==
    << "A","B","C","D","E","F","G","H","I","J","K","L","M","N","O","P",
       "Q","R","S","T","U","V","W","X","Y","Z","a","b","c","d","e","f",
       "g","h","i","j","k","l","m","n","o","p","q","r","s","t","u","v",
       "w","x","y","z","0","1","2","3","4","5","6","7","8","9","+","/" >>

B64Set == { B64Alphabet[i] : i \in 1..64 }

B64Value(ch) == (CHOOSE i \in 1..64 : B64Alphabet[i] = ch) - 1

\* a character that str.encode('ascii') refuses
NonAscii == { "<U+00E9>" }

\* binascii.a2b_base64 in its default, non-strict mode: characters outside
\* the alphabet are skipped, a pad sequence that completes a quad ends the
\* scan, and an incomplete quad at the end of the input is an error.
RECURSIVE a2b_base64(_, _, _, _, _, _)
a2b_base64(s, i, quad_pos, pads, leftchar, out) ==
    IF i > Len(s)
    THEN IF quad_pos # 0
         THEN Raise("binascii.Error",
                    IF quad_pos = 1 THEN "Invalid base64-encoded string"
                                    ELSE "Incorrect padding")
         ELSE Return(out)
    ELSE LET ch == s[i] IN
         IF ch = "="
         THEN IF quad_pos >= 2 /\ quad_pos + pads + 1 >= 4
              THEN Return(out)
              ELSE a2b_base64(s, i + 1, quad_pos,
                              IF quad_pos >= 2 THEN pads + 1 ELSE pads,
                              leftchar, out)
         ELSE IF ch \notin B64Set
         THEN a2b_base64(s, i + 1, quad_pos, pads, leftchar, out)
         ELSE LET v == B64Value(ch) IN
              CASE quad_pos = 0 -> a2b_base64(s, i + 1, 1, 0, v, out)
                [] quad_pos = 1 -> a2b_base64(s, i + 1, 2, 0, v % 16,
                                       Append(out, leftchar * 4 + (v \div 16)))
                [] quad_pos = 2 -> a2b_base64(s, i + 1, 3, 0, v % 4,
                                       Append(out, leftchar * 16 + (v \div 4)))
                [] OTHER        -> a2b_base64(s, i + 1, 0, 0, 0,
                                       Append(out, leftchar * 64 + v))

\* b64decode(s): a str is first encoded as ASCII, then decoded leniently
b64decode(string) ==
    IF \E i \in 1..Len(string) : string[i] \in NonAscii
    THEN Raise("ValueError", "string argument should contain only ASCII characters")
    ELSE a2b_base64(string, 1, 0, 0, 0, << >>)

\* number.bytes_to_long: big-endian, the empty string is 0
RECURSIVE bytes_to_long(_)
bytes_to_long(bs) ==
    IF bs = << >> THEN 0
    ELSE 256 * bytes_to_long(SubSeq(bs, 1, Len(bs) - 1)) + bs[Len(bs)]

----------------------------------------------------------------------------
(* The XML document *)

\* A key file: whether open() succeeds, whether minidom parses it, and the
\* elements of the document in document order, each with its child nodes.
TEXT_NODE == "TEXT_NODE"
COMMENT_NODE == "COMMENT_NODE"

FieldOrder == << "Modulus", "Exponent", "D", "P", "Q" >>
Fields == { FieldOrder[i] : i \in 1..5 }

\* rsa_key_value.getElementsByTagName(name)
getElementsByTagName(doc, name) ==
    SelectSeq(doc.elems, LAMBDA el : el.tag = name)

\* ''.join(rc) over the TEXT_NODE children, in order
RECURSIVE JoinText(_)
JoinText(nodelist) ==
    IF nodelist = << >> THEN << >>
    ELSE (IF Head(nodelist).nodeType = TEXT_NODE THEN Head(nodelist).data ELSE << >>)
         \o JoinText(Tail(nodelist))

_process_xml_node(nodelist) ==
    LET decoded == b64decode(JoinText(nodelist)) IN
    IF decoded.ok THEN Return(bytes_to_long(decoded.val)) ELSE decoded

\* a faulty variant: a lookup that yields an empty node list for an absent element
FirstChildNodes_default(doc, name) ==
    LET found == getElementsByTagName(doc, name) IN
    IF found = << >> THEN Return(<< >>) ELSE Return(found[1].childNodes)

\* getElementsByTagName(name)[0].childNodes
FirstChildNodes(doc, name) ==
    LET found == getElementsByTagName(doc, name) IN
    IF found = << >> THEN Raise("IndexError", "list index out of range")
    ELSE Return(found[1].childNodes)

----------------------------------------------------------------------------
(* RSA.construct((modulus, exponent, d, p, q)), consistency_check=True *)

RECURSIVE Gcd(_, _)
Gcd(a, b) == IF b = 0 THEN a ELSE Gcd(b, a % b)

\* test_probable_prime(x) # COMPOSITE, by trial division
RECURSIVE HasDivisorFrom(_, _)
HasDivisorFrom(x, k) ==
    IF k * k > x THEN FALSE
    ELSE IF x % k = 0 THEN TRUE
    ELSE HasDivisorFrom(x, k + 1)

ProbablePrime(x) == x > 1 /\ ~HasDivisorFrom(x, 2)

\* the loop of Integer.inverse: the extended Euclidean algorithm
RECURSIVE InverseLoop(_, _, _, _)
InverseLoop(r_p, r_n, s_p, s_n) ==
    IF r_n > 0
    THEN LET quot == r_p \div r_n IN
         InverseLoop(r_n, r_p - quot * r_n, s_n, s_p - quot * s_n)
    ELSE << r_p, s_p >>

\* p.inverse(q)
inverse(p, q) ==
    IF q = 0 THEN Raise("ZeroDivisionError", "Modulus cannot be zero")
    ELSE LET end == InverseLoop(p, q, 1, 0) IN
         IF end[1] # 1 THEN Raise("ValueError", "No inverse value can be computed")
         ELSE Return(IF end[2] < 0 THEN end[2] % q ELSE end[2])

\* lcm = phi // (p - 1).gcd(q - 1)
ExponentModulus(p, q) == ((p - 1) * (q - 1)) \div Gcd(p - 1, q - 1)

\* a faulty variant: consistency_check=False
ConsistencyError_off(n, e, d, p, q, u) == "none"

ConsistencyError(n, e, d, p, q, u) ==
    IF e <= 1 \/ e >= n THEN "Invalid RSA public exponent"
    ELSE IF Gcd(n, e) # 1 THEN "RSA public exponent is not coprime to modulus"
    ELSE IF n % 2 = 0 THEN "RSA modulus is not odd"
    ELSE IF d <= 1 \/ d >= n THEN "Invalid RSA private exponent"
    ELSE IF Gcd(n, d) # 1 THEN "RSA private exponent is not coprime to modulus"
    ELSE IF p * q # n THEN "RSA factors do not match modulus"
    ELSE IF ~ProbablePrime(p) THEN "RSA factor p is composite"
    ELSE IF ~ProbablePrime(q) THEN "RSA factor q is composite"
    ELSE IF (e * d) % ExponentModulus(p, q) # 1 THEN "Invalid RSA condition"
    ELSE IF u <= 1 \/ u >= q THEN "Invalid RSA component u"
    ELSE IF (p * u) % q # 1 THEN "Invalid RSA component u with p"
    ELSE "none"

RSA_construct(n, e, d, p, q) ==
    LET inv == inverse(p, q) IN
    IF ~inv.ok THEN inv
    ELSE LET u == inv.val
             bad == ConsistencyError(n, e, d, p, q, u) IN
         IF bad # "none" THEN Raise("ValueError", bad)
         ELSE Return([n |-> n, e |-> e, d |-> d, p |-> p, q |-> q, u |-> u])

----------------------------------------------------------------------------
(* _convert_xml_key_to_pem *)

\* the five _process_xml_node calls, in the order of the code; the first one
\* that raises ends the sequence
RECURSIVE ReadFields(_, _, _)
ReadFields(doc, i, acc) ==
    IF i > Len(FieldOrder) THEN Return(acc)
    ELSE LET nodes == FirstChildNodes(doc, FieldOrder[i]) IN
         IF ~nodes.ok THEN nodes
         ELSE LET num == _process_xml_node(nodes.val) IN
              IF ~num.ok THEN num
              ELSE ReadFields(doc, i + 1, Append(acc, num.val))

\* the body of the try block
TryLoad(f) ==
    IF ~f.readable THEN Raise("IOError", "No such file or directory")
    ELSE IF ~f.wellformed THEN Raise("ExpatError", "not well-formed")
    ELSE LET nums == ReadFields(f, 1, << >>) IN
         IF ~nums.ok THEN nums
         ELSE RSA_construct(nums.val[1], nums.val[2], nums.val[3],
                            nums.val[4], nums.val[5])

SystemExit(err) == [type |-> "SystemExit", code |-> err]

\* a faulty variant: the handler logs the error and returns, and __init__ goes on
\* with a key that was never built
_convert_xml_key_to_pem_swallow(f) ==
    LET r == TryLoad(f) IN
    IF r.ok THEN r ELSE Return(NoKey)

\* except Exception as err: raise SystemExit(err)
_convert_xml_key_to_pem(f) ==
    LET r == TryLoad(f) IN
    IF r.ok THEN r ELSE [ok |-> FALSE, err |-> SystemExit(r.err)]

----------------------------------------------------------------------------
(* _make_sign *)

\* A dict is the sequence of its items in insertion order, keys distinct. A
\* key or a value is a str or an int, kept with its type and its text.
StrVal(s) == [type |-> "str", repr |-> s]
IntVal(i) == [type |-> "int", repr |-> ToString(i)]
Item(k, v) == [k |-> k, v |-> v]

\* a key is written as a JSON string, an int key by its decimal text
JsonKey(k) == "\"" \o k.repr \o "\""

JsonValue(v) == IF v.type = "str" THEN "\"" \o v.repr \o "\"" ELSE v.repr

RECURSIVE JsonItems(_, _, _)
JsonItems(items, item_sep, key_sep) ==
    IF items = << >> THEN ""
    ELSE JsonKey(Head(items).k) \o key_sep \o JsonValue(Head(items).v)
         \o (IF Tail(items) = << >> THEN "" ELSE item_sep)
         \o JsonItems(Tail(items), item_sep, key_sep)

\* json.dumps(d): the items in the dict's own order, separators ', ' and ': '
json_dumps(d) == "{" \o JsonItems(d, ", ", ": ") \o "}"

\* json.dumps(d, separators=(',', ':'))
json_dumps_compact(d) == "{" \o JsonItems(d, ",", ":") \o "}"

\* serialized_data = json.dumps(data).encode('utf8'): the text is ASCII
\* (ensure_ascii), so its UTF-8 bytes are its characters
SignedBytes(d) == json_dumps(d)

\* a faulty variant: the body is written by an encoder configured otherwise
RequestBody_compact(d) == json_dumps_compact(d)

\* payload = json.dumps(data); request.data = payload.encode("utf-8")
RequestBody(d) == json_dumps(d)

\* SHA1.new(bytes): the digest stands for its message (no collisions)
SHA1_new(bytes) == [alg |-> "SHA1", msg |-> bytes]

\* size_in_bits
RECURSIVE BitLength(_)
BitLength(n) == IF n = 0 THEN 0 ELSE 1 + BitLength(n \div 2)

\* a faulty variant: a randomised scheme (PSS), salted from the random generator
PKCS115_sign_salted(key, hash_data) ==
    IF BitLength(key.n) < MinEmBits
    THEN Raise("TypeError", "Selected hash algorithm has a too long digest")
    ELSE Return([n |-> key.n, d |-> key.d, em |-> hash_data, salt |-> rng])

\* PKCS115_SigScheme(key).sign(hash): the encoded digest must fit the
\* modulus; the signature is em^d mod n, determined by (n, d, digest). The
\* private-key operation blinds with a random number, which the result does
\* not depend on.
PKCS115_sign(key, hash_data) ==
    IF BitLength(key.n) < MinEmBits
    THEN Raise("TypeError", "Selected hash algorithm has a too long digest")
    ELSE Return([n |-> key.n, d |-> key.d, em |-> hash_data])

b64encode(signature) == [base64 |-> signature]

\* hash, sign and encode: lines 60 to 64
SignBytes(key, bytes) ==
    LET signature == PKCS115_sign(key, SHA1_new(bytes)) IN
    IF signature.ok THEN Return(b64encode(signature.val)) ELSE signature

_make_sign(key, d) == SignBytes(key, SignedBytes(d))

----------------------------------------------------------------------------
(* The API calls: redirect, check_transaction, verify_payment, refund *)

Callers == { "c1", "c2" }

NoToken == [base64 |-> [n |-> 0, d |-> 0, em |-> [alg |-> "none", msg |-> ""]]]
NoRequest == [url |-> "none", Sign |-> NoToken, data |-> ""]

\* the constructor's arguments
merchant_code == "4412"
terminal_id == "1700"
redirect_url == "https://shop/cb"

ACTION_PURCHASE == "1003"
URL_GET_TOKEN == "https://pep.shaparak.ir/Api/v1/Payment/GetToken"
URL_CHECK_TRANSACTION == "https://pep.shaparak.ir/Api/v1/Payment/CheckTransactionResult"
URL_VERIFY_PAYMENT == "https://pep.shaparak.ir/Api/v1/Payment/VerifyPayment"
URL_REFUND == "https://pep.shaparak.ir/Api/v1/Payment/RefundPayment"

\* the arguments tried, and what _generate_timestamp may read off the clock
Amounts == { "1000", "1001" }
InvoiceNumber == "A1"
InvoiceDate == "2020/01/01 10:00:00"
ReferenceId == "R7"
Clock == { "2020/01/01 10:00:01" }

ApiCalls ==
    [m : {"redirect", "verify_payment"}, amount : Amounts, ts : Clock]
    \cup [m : {"refund"}, amount : {""}, ts : Clock]
    \cup [m : {"check_transaction"}, amount : {""}, ts : {""}]

S(k, v) == Item(StrVal(k), StrVal(v))

\* the params dict each method builds, in the order of its literal
Params(call) ==
    CASE call.m = "redirect" ->
           << S("Amount", call.amount), S("InvoiceNumber", InvoiceNumber),
              S("InvoiceDate", InvoiceDate), S("Mobile", ""), S("Email", ""),
              S("Action", ACTION_PURCHASE), S("MerchantCode", merchant_code),
              S("TerminalCode", terminal_id), S("RedirectAddress", redirect_url),
              S("TimeStamp", call.ts) >>
      [] call.m = "check_transaction" ->
           << S("transactionReferenceID", ReferenceId),
              S("invoiceNumber", InvoiceNumber), S("invoiceDate", InvoiceDate),
              S("merchantCode", merchant_code), S("terminalCode", terminal_id) >>
      [] call.m = "verify_payment" ->
           << S("amount", call.amount), S("invoiceNumber", InvoiceNumber),
              S("invoiceDate", InvoiceDate), S("merchantCode", merchant_code),
              S("terminalCode", terminal_id), S("timeStamp", call.ts) >>
      [] OTHER ->
           << S("invoiceNumber", InvoiceNumber), S("invoiceDate", InvoiceDate),
              S("merchantCode", merchant_code), S("terminalCode", terminal_id),
              S("timeStamp", call.ts) >>

Url(m) ==
    CASE m = "redirect" -> URL_GET_TOKEN
      [] m = "check_transaction" -> URL_CHECK_TRANSACTION
      [] m = "verify_payment" -> URL_VERIFY_PAYMENT
      [] OTHER -> URL_REFUND

\* a faulty variant: a method can run on an object whose __init__ has not loaded
\* the key (a key loaded lazily, or not at all)
CanCall_unloaded == client # "aborted"

\* a method runs on a constructed object only: __init__ has returned
CanCall == client = "ready"

\* a faulty variant: serialized_data kept where the calls share it
HashInput_shared(c) ==
    IF \E o \in Callers \ {c} : serialized[o] # ""
    THEN serialized[CHOOSE o \in Callers \ {c} : serialized[o] # ""]
    ELSE serialized[c]

\* hash_data = SHA1.new(serialized_data): the call's own local
HashInput(c) == serialized[c]

----------------------------------------------------------------------------
(* Actions *)

\* Pasargad(merchant_code, terminal_id, redirect_url, certification_file)
Construct ==
    /\ client = "new"
    /\ LET r == _convert_xml_key_to_pem(file) IN
       IF r.ok
       THEN /\ client' = "ready"
            /\ key_pair' = r.val
            /\ exitErr' = exitErr
       ELSE /\ client' = "aborted"
            /\ key_pair' = key_pair
            /\ exitErr' = r.err
    /\ loads' = loads + 1
    /\ UNCHANGED <<file, rng>>
    /\ UNCHANGED callerVars
    /\ UNCHANGED probeVars

\* a caller enters one of the four methods, which builds its params
Call(c) ==
    /\ CanCall
    /\ pc[c] = "idle"
    /\ calls[c] < MaxCalls
    /\ \E call \in ApiCalls :
         /\ method' = [method EXCEPT ![c] = call.m]
         /\ data' = [data EXCEPT ![c] = Params(call)]
    /\ pc' = [pc EXCEPT ![c] = "built"]
    /\ calls' = [calls EXCEPT ![c] = @ + 1]
    /\ signs' = [signs EXCEPT ![c] = 0]
    /\ local_key' = [local_key EXCEPT ![c] = NoKey]
    /\ serialized' = [serialized EXCEPT ![c] = ""]
    /\ sign' = [sign EXCEPT ![c] = NoToken]
    /\ body' = [body EXCEPT ![c] = ""]
    /\ sent' = [sent EXCEPT ![c] = NoRequest]
    /\ outcome' = [outcome EXCEPT ![c] = "running"]
    /\ UNCHANGED <<rng>>
    /\ UNCHANGED clientVars
    /\ UNCHANGED probeVars

\* _request_builder enters _make_sign: key_pair = self._key_pair
ReadKey(c) ==
    /\ pc[c] = "built"
    /\ local_key' = [local_key EXCEPT ![c] = key_pair]
    /\ signs' = [signs EXCEPT ![c] = @ + 1]
    /\ pc' = [pc EXCEPT ![c] = "make_sign"]
    /\ UNCHANGED <<method, data, serialized, sign, body, sent, calls, outcome, rng>>
    /\ UNCHANGED clientVars
    /\ UNCHANGED probeVars

\* serialized_data = json.dumps(data).encode('utf8')
Serialize(c) ==
    /\ pc[c] = "make_sign"
    /\ serialized' = [serialized EXCEPT ![c] = SignedBytes(data[c])]
    /\ pc' = [pc EXCEPT ![c] = "serialized"]
    /\ UNCHANGED <<method, data, local_key, sign, body, sent, signs, calls, outcome, rng>>
    /\ UNCHANGED clientVars
    /\ UNCHANGED probeVars

\* hash, sign, encode; the token becomes the 'Sign' header, or the
\* signer's exception leaves the method
Sign(c) ==
    /\ pc[c] = "serialized"
    /\ LET r == SignBytes(local_key[c], HashInput(c)) IN
       IF r.ok
       THEN /\ sign' = [sign EXCEPT ![c] = r.val]
            /\ pc' = [pc EXCEPT ![c] = "headers"]
            /\ outcome' = outcome
       ELSE /\ sign' = sign
            /\ pc' = [pc EXCEPT ![c] = "idle"]
            /\ outcome' = [outcome EXCEPT ![c] = r.err.type]
    /\ rng' = 1 - rng
    /\ UNCHANGED <<method, data, local_key, serialized, body, sent, signs, calls>>
    /\ UNCHANGED clientVars
    /\ UNCHANGED probeVars

\* payload = json.dumps(data); request.data = payload.encode("utf-8")
Body(c) ==
    /\ pc[c] = "headers"
    /\ body' = [body EXCEPT ![c] = RequestBody(data[c])]
    /\ pc' = [pc EXCEPT ![c] = "request"]
    /\ UNCHANGED <<method, data, local_key, serialized, sign, sent, signs, calls, outcome, rng>>
    /\ UNCHANGED clientVars
    /\ UNCHANGED probeVars

\* urlopen(request), and the response: returned, or ApiError when not IsSuccess
Send(c) ==
    /\ pc[c] = "request"
    /\ sent' = [sent EXCEPT ![c] =
                  [url |-> Url(method[c]), Sign |-> sign[c], data |-> body[c]]]
    /\ \E IsSuccess \in BOOLEAN :
         outcome' = [outcome EXCEPT ![c] = IF IsSuccess THEN "returned" ELSE "ApiError"]
    /\ pc' = [pc EXCEPT ![c] = "idle"]
    /\ UNCHANGED <<method, data, local_key, serialized, sign, body, signs, calls, rng>>
    /\ UNCHANGED clientVars
    /\ UNCHANGED probeVars

\* _make_sign applied to each payload of the pair, at most twice
Probe ==
    /\ client = "ready"
    /\ Len(probeOut) < 2
    /\ probeOut' = Append(probeOut, << _make_sign(key_pair, probe[1]),
                                       _make_sign(key_pair, probe[2]) >>)
    /\ rng' = 1 - rng
    /\ UNCHANGED probe
    /\ UNCHANGED clientVars
    /\ UNCHANGED callerVars

----------------------------------------------------------------------------
(* Key files tried *)

\* base64 of the one byte v, as a key file holds a number below 256
EncodeByte(v) ==
    << B64Alphabet[(v \div 4) + 1], B64Alphabet[(v % 4) * 16 + 1], "=", "=" >>

TextNode(t) == [nodeType |-> TEXT_NODE, data |-> t]
CommentNode == [nodeType |-> COMMENT_NODE, data |-> << "n", "o", "t", "e" >>]
Element(tag, nodes) == [tag |-> tag, childNodes |-> nodes]

\* consistent keys: 7 * 11 and 3 * 5
Key77 == [Modulus |-> 77, Exponent |-> 13, D |-> 37, P |-> 7, Q |-> 11]
Key15 == [Modulus |-> 15, Exponent |-> 7, D |-> 11, P |-> 3, Q |-> 5]

\* the ways one element is written into a key file
Forms == { "plain", "split", "twice", "empty", "absent" }

FieldElems(name, form, text) ==
    CASE form = "plain" -> << Element(name, << TextNode(text) >>) >>
      [] form = "split" ->
           << Element(name, << TextNode(SubSeq(text, 1, 1)), CommentNode,
                                TextNode(SubSeq(text, 2, Len(text))) >>) >>
      [] form = "twice" ->
           << Element(name, << TextNode(text) >>),
              Element(name, << TextNode(EncodeByte(0)) >>) >>
      [] form = "empty" -> << Element(name, << >>) >>
      [] OTHER -> << >>

\* a well-formed document: an element the loader does not know, then the
\* five fields, each in its form
Document(texts, forms) ==
    [readable |-> TRUE, wellformed |-> TRUE,
     elems |-> << Element("InverseQ", << TextNode(EncodeByte(1)) >>) >>
               \o FieldElems("Modulus", forms["Modulus"], texts["Modulus"])
               \o FieldElems("Exponent", forms["Exponent"], texts["Exponent"])
               \o FieldElems("D", forms["D"], texts["D"])
               \o FieldElems("P", forms["P"], texts["P"])
               \o FieldElems("Q", forms["Q"], texts["Q"])]

KeyTexts(key) == [f \in Fields |-> EncodeByte(key[f])]
AllPlain == [f \in Fields |-> "plain"]
KeyFile(key) == Document(KeyTexts(key), AllPlain)

Unreadable == [readable |-> FALSE, wellformed |-> FALSE, elems |-> << >>]
Malformed == [readable |-> TRUE, wellformed |-> FALSE, elems |-> << >>]

\* the characters of the free texts: alphabet, pad, ASCII outside the
\* alphabet, and not ASCII
TextChars == { "T", "Q", "=", "!", "<U+00E9>" }
Texts == UNION { [1..k -> TextChars] : k \in 0..MaxTextLen }

\* the payloads handed directly to _make_sign
ProbeKeys == { StrVal("Amount"), StrVal("1"), IntVal(1) }
ProbeValues == { StrVal("1000"), IntVal(1000) }
Dicts ==
    UNION { { d \in [1..k -> [k : ProbeKeys, v : ProbeValues]] :
                \A i, j \in 1..k : d[i].k = d[j].k => i = j } :
            k \in 0..MaxDictLen }

----------------------------------------------------------------------------
(* Specifications *)

InitCallers ==
    /\ pc = [c \in Callers |-> "idle"]
    /\ method = [c \in Callers |-> "none"]
    /\ data = [c \in Callers |-> << >>]
    /\ local_key = [c \in Callers |-> NoKey]
    /\ serialized = [c \in Callers |-> ""]
    /\ sign = [c \in Callers |-> NoToken]
    /\ body = [c \in Callers |-> ""]
    /\ sent = [c \in Callers |-> NoRequest]
    /\ signs = [c \in Callers |-> 0]
    /\ calls = [c \in Callers |-> 0]
    /\ outcome = [c \in Callers |-> "none"]

InitClient ==
    /\ client = "new"
    /\ key_pair = NoKey
    /\ exitErr = NoErr
    /\ loads = 0
    /\ rng = 0

\* the files a client is built from before it is called: unreadable,
\* malformed, two keys, an element absent, a text split by a comment, a text
\* with a character outside the base64 alphabet, a text with a pad missing
ClientFile ==
    \/ file \in { Unreadable, Malformed, KeyFile(Key77), KeyFile(Key15) }
    \/ file = Document(KeyTexts(Key77), [AllPlain EXCEPT !["D"] = "absent"])
    \/ file = Document(KeyTexts(Key77), [AllPlain EXCEPT !["P"] = "split"])
    \/ file = Document([KeyTexts(Key77) EXCEPT
                          !["Modulus"] = << "T", "!", "Q", "=", "=" >>], AllPlain)
    \/ file = Document([KeyTexts(Key77) EXCEPT
                          !["Q"] = << "C", "w", "=" >>], AllPlain)

\* one client, built from a key file and then called by concurrent callers
Init ==
    /\ ClientFile
    /\ InitClient
    /\ InitCallers
    /\ probe = << << >>, << >> >>
    /\ probeOut = << >>

Next ==
    \/ Construct
    \/ \E c \in Callers : Call(c)
    \/ \E c \in Callers : ReadKey(c)
    \/ \E c \in Callers : Serialize(c)
    \/ \E c \in Callers : Sign(c)
    \/ \E c \in Callers : Body(c)
    \/ \E c \in Callers : Send(c)

Spec == Init /\ [][Next]_vars

\* the loader alone, over key files of every shape: every form of every
\* field of two keys, and every free text in one field of a key
InitLoad ==
    /\ \/ file \in { Unreadable, Malformed }
       \/ \E key \in { Key77, Key15 }, forms \in [Fields -> Forms] :
            file = Document(KeyTexts(key), forms)
       \/ \E f \in Fields, t \in Texts :
            file = Document([KeyTexts(Key77) EXCEPT ![f] = t], AllPlain)
    /\ InitClient
    /\ InitCallers
    /\ probe = << << >>, << >> >>
    /\ probeOut = << >>

NextLoad == Construct

SpecLoad == InitLoad /\ [][NextLoad]_vars

\* the loader alone, over key files of every component set within the
\* bounds, each number written plainly
InitNumbers ==
    /\ \E n \in 0..MaxN, e \in 0..MaxExp, d \in 0..MaxExp,
          p \in 0..MaxPrime, q \in 0..MaxPrime :
         file = KeyFile([Modulus |-> n, Exponent |-> e, D |-> d, P |-> p, Q |-> q])
    /\ InitClient
    /\ InitCallers
    /\ probe = << << >>, << >> >>
    /\ probeOut = << >>

SpecNumbers == InitNumbers /\ [][NextLoad]_vars

\* the signer alone, over pairs of payloads
InitSign ==
    /\ file \in { KeyFile(Key77), KeyFile(Key15) }
    /\ InitClient
    /\ InitCallers
    /\ probe \in Dicts \X Dicts
    /\ probeOut = << >>

NextSign ==
    \/ Construct
    \/ Probe

SpecSign == InitSign /\ [][NextSign]_vars

----------------------------------------------------------------------------
(* Properties *)

\* the first element of a field, and whether the file holds one
Present(f) == getElementsByTagName(file, f) # << >>
FieldText(f) == JoinText(getElementsByTagName(file, f)[1].childNodes)
Component(key, i) ==
    CASE i = 1 -> key.n [] i = 2 -> key.e [] i = 3 -> key.d [] i = 4 -> key.p
      [] OTHER -> key.q

Quiet(c) == pc[c] = "idle" /\ calls[c] = 0 /\ signs[c] = 0 /\ sent[c] = NoRequest

\* C1: key loading is all-or-nothing. A constructed client holds a key built
\* from all five elements of the file, each present and decoded; an aborted
\* construction leaves no key; and no caller ever runs a method, signs or
\* sends unless construction succeeded.
C1_AllOrNothing ==
    /\ client = "ready" =>
         /\ key_pair # NoKey
         /\ file.readable /\ file.wellformed
         /\ \A i \in 1..5 :
              /\ Present(FieldOrder[i])
              /\ b64decode(FieldText(FieldOrder[i])).ok
              /\ Component(key_pair, i)
                   = bytes_to_long(b64decode(FieldText(FieldOrder[i])).val)
    /\ client = "aborted" => key_pair = NoKey /\ exitErr.type = "SystemExit"
    /\ client # "ready" => \A c \in Callers : Quiet(c)

\* C1 witness: a construction that aborted on a file with an element absent
C1_Witness ==
    /\ client = "aborted"
    /\ loads = 1
    /\ file.wellformed
    /\ ~Present("D")

\* C2: the bytes that were hashed and signed for the 'Sign' header are the
\* bytes sent as the body: every request handed to urlopen carries the token
\* of its own body under the client's key.
C2_SignMatchesBody ==
    \A c \in Callers :
        sent[c] # NoRequest =>
            /\ SignBytes(key_pair, sent[c].data).ok
            /\ sent[c].Sign = SignBytes(key_pair, sent[c].data).val

\* C2 witness: a redirect request was sent
C2_Witness ==
    \E c \in Callers :
        /\ sent[c] # NoRequest
        /\ sent[c].url = URL_GET_TOKEN
        /\ sent[c].data # ""

\* the least common multiple, for the statement of C3
Lcm(a, b) == CHOOSE m \in 1..(a * b) : m % a = 0 /\ m % b = 0
                  /\ \A k \in 1..(m - 1) : ~(k % a = 0 /\ k % b = 0)

\* C3, as amended: every key the loader returns has modulus = p * q, both
\* exponents other than zero, and d * e = 1 modulo lcm(p - 1, q - 1).
C3_KeyInvariants ==
    client = "ready" =>
        /\ key_pair.n = key_pair.p * key_pair.q
        /\ key_pair.e # 0 /\ key_pair.d # 0
        /\ key_pair.p > 1 /\ key_pair.q > 1
        /\ (key_pair.d * key_pair.e) % Lcm(key_pair.p - 1, key_pair.q - 1) = 1

\* C3 witness: a key was returned whose exponents differ
C3_Witness ==
    /\ client = "ready"
    /\ key_pair.n = 15
    /\ key_pair.e # key_pair.d

\* C3 as stated: d * e = 1 modulo (p - 1)(q - 1) for every returned key
C3_Totient ==
    client = "ready" =>
        /\ key_pair.n = key_pair.p * key_pair.q
        /\ key_pair.e # 0 /\ key_pair.d # 0
        /\ (key_pair.d * key_pair.e) % ((key_pair.p - 1) * (key_pair.q - 1)) = 1

Missing == { f \in Fields : ~Present(f) }
ExactlyOneMissing == file.readable /\ file.wellformed /\ Cardinality(Missing) = 1
MissingIndex == CHOOSE i \in 1..5 : ~Present(FieldOrder[i])

\* C4, as amended: when exactly one of the five elements is absent from a
\* well-formed file, loading fails and construction aborts with SystemExit;
\* the exception it carries never names the absent field, and it is the
\* IndexError of the empty lookup whenever the fields read before it decode.
C4_MissingFieldAborts ==
    (client # "new" /\ ExactlyOneMissing) =>
        /\ client = "aborted"
        /\ key_pair = NoKey
        /\ exitErr.type = "SystemExit"
        /\ exitErr.code.arg \notin Fields
        /\ (\A j \in 1..(MissingIndex - 1) : b64decode(FieldText(FieldOrder[j])).ok)
             => exitErr.code = [type |-> "IndexError",
                                arg |-> "list index out of range"]

\* C4 witness: construction aborted on a file that lacks P and nothing else
C4_Witness ==
    /\ client = "aborted"
    /\ ExactlyOneMissing
    /\ ~Present("P")
    /\ exitErr.code.type = "IndexError"

\* C4 as stated: the failure is a MissingField error naming the absent field
C4_NamesMissingField ==
    (client # "new" /\ ExactlyOneMissing) =>
        /\ client = "aborted"
        /\ exitErr.code = [type |-> "MissingField", arg |-> FieldOrder[MissingIndex]]

\* C5: no key is built from text that is not valid base64, such as text
\* with characters outside the base64 alphabet: in a constructed client the
\* text of each of the five elements holds alphabet and pad characters only.
C5_NoKeyFromInvalidBase64 ==
    client = "ready" =>
        \A f \in Fields : \A i \in 1..Len(FieldText(f)) :
            FieldText(f)[i] \in B64Set \cup { "=" }

\* C6: the loader rejects every key whose modulus is shorter than the
\* minimum of 1024 bits: a constructed client's modulus has at least 1024.
C6_MinimumKeySize ==
    client = "ready" => BitLength(key_pair.n) >= 1024

\* the same items in the same insertion order, each key and value written
\* alike by the encoder
SameInOrder(a, b) ==
    /\ Len(a) = Len(b)
    /\ \A i \in 1..Len(a) : a[i].k.repr = b[i].k.repr /\ a[i].v = b[i].v

\* equal as structured values: the same keys mapped to the same values
EqualAsValues(a, b) ==
    { a[i] : i \in 1..Len(a) } = { b[i] : i \in 1..Len(b) }

\* C7, as amended: for a fixed key, two payloads with the same items in the
\* same insertion order get the same token, and a second run of _make_sign
\* over the same payloads gives what the first gave.
C7_SameOrderSameToken ==
    /\ Len(probeOut) >= 1 =>
         (SameInOrder(probe[1], probe[2]) => probeOut[1][1] = probeOut[1][2])
    /\ Len(probeOut) >= 2 => probeOut[2] = probeOut[1]

\* C7 witness: two payloads built differently, written alike, signed twice
C7_Witness ==
    /\ Len(probeOut) = 2
    /\ probe[1] # probe[2]
    /\ probe[1] # << >>
    /\ SameInOrder(probe[1], probe[2])
    /\ probeOut[1][1].ok

\* C7 as stated: payloads equal as structured values get the same token,
\* in whichever order they were built
C7_EqualValuesSameToken ==
    (Len(probeOut) >= 1 /\ EqualAsValues(probe[1], probe[2]))
        => probeOut[1][1] = probeOut[1][2]

\* C8: once construction has succeeded, signing a well-formed payload has no
\* failure outcome: no API call ends with the signer's exception.
C8_SigningNeverFails ==
    \A c \in Callers : outcome[c] # "TypeError"

\* C9: signing reads the key and writes nothing the calls share: under every
\* interleaving the key is the one loaded at construction, and each request
\* sent carries the token of its own call's payload under that key.
C9_OwnToken ==
    /\ client = "ready" => key_pair = TryLoad(file).val
    /\ \A c \in Callers :
         sent[c] # NoRequest =>
            /\ sent[c].Sign = _make_sign(key_pair, data[c]).val
            /\ sent[c].data = json_dumps(data[c])
    /\ \A c \in Callers :
         pc[c] \in {"headers", "request"} =>
            sign[c] = _make_sign(key_pair, data[c]).val

\* C9 witness: one caller holds its token while another, with another
\* payload, is inside _make_sign
C9_Witness ==
    /\ pc["c1"] = "headers"
    /\ pc["c2"] = "serialized"
    /\ data["c1"] # data["c2"]

\* C10: the key file is loaded once, at construction and before any call;
\* each call runs the signer once, with the key cached at construction,
\* before its request is sent, and sends the token computed in that call.
C10_LoadOnceSignPerCall ==
    /\ loads <= 1
    /\ (loads = 0) = (client = "new")
    /\ \A c \in Callers :
         /\ (pc[c] # "idle" \/ calls[c] > 0) => (client = "ready" /\ loads = 1)
         /\ pc[c] = "built" => (signs[c] = 0 /\ sign[c] = NoToken)
         /\ pc[c] \in {"make_sign", "serialized", "headers", "request"} =>
              (signs[c] = 1 /\ local_key[c] = key_pair /\ sent[c] = NoRequest)
         /\ pc[c] \in {"make_sign", "serialized"} => sign[c] = NoToken
         /\ sent[c] # NoRequest =>
              (signs[c] = 1 /\ sent[c].Sign = sign[c] /\ sign[c] # NoToken)

\* C10 witness: a caller's second call on the same client sent its request
C10_Witness ==
    \E c \in Callers :
        /\ calls[c] > 1
        /\ sent[c] # NoRequest
        /\ loads = 1

=============================================================================
